---- MODULE Spec2Model ----
(***************************************************************************)
(* State-machine model of the ov3r-api ingestion and query services.       *)
(*                                                                         *)
(*  - crawl-job tracker      src/utils/track_crawler_jobs/index.ts (pg)    *)
(*                           src/unnamed/part_004 (prisma build)           *)
(*  - ingestion endpoints    src/routes/comprehend/index.ts                *)
(*  - ingestion orchestrator src/utils/process_urls_to_embeddings/index.ts *)
(*  - dedup / insert         src/utils/generate_embeddings/index.ts        *)
(*  - query engine           src/unnamed/part_003                          *)
(*                                                                         *)
(* Every handler is cut at its awaits: one action runs the code from one   *)
(* await to the next, including the catch blocks reached synchronously.    *)
(***************************************************************************)
EXTENDS Integers, Sequences, FiniteSets, TLC

VARIABLES
    now,        \* wall clock read by new Date() / CURRENT_TIMESTAMP
    impl,       \* which build of track_crawler_jobs is linked: "pg" or "prisma"
    jobs,       \* crawler_jobs table: request id -> row, or NoJob
    writes,     \* per job: number of UPDATEs that wrote completed_at
    h,          \* per request: the handler / background task position and locals
    documents,  \* documents table of the vector store (a set of rows)
    cache,      \* redis: the set of live entries, at most one per key
    q,          \* per query invocation: position and locals of answerQuestion
    env,        \* process.env: the variables that are set
    call        \* a call of a pure function: its arguments and its result

vars == <<now, impl, jobs, writes, h, documents, cache, q, env, call>>

----------------------------------------------------------------------------
(* Bounds of the model *)

MaxNow == 2        \* the clock stops advancing here
MaxPdf == 1        \* largest number of PDF URLs a crawl reports

Reqs == {"r1", "r2"}               \* ingestion requests (one job each at most)
Urls == {"u1", "u2"}               \* parseable URL strings
BadUrl == "not a url"              \* a string new URL() rejects
States == {"NY", "TX"}             \* jurisdiction tags
Contents == {"c1", "c2"}           \* page contents a crawl can deliver
EmptyHtml == ""                    \* what failedRequestHandler delivers

\* SQL NULL for the timestamp and numeric columns
NULL == -1
NoJob == [status |-> "none"]
NoMsg == "NULL"

----------------------------------------------------------------------------
(* Crawl Job Tracker *)

Terminal == {"completed", "failed"}

\* INSERT INTO crawler_jobs (state, urls, max_urls, status) VALUES (..,'pending');
\* the remaining columns take the table's defaults.
createCrawlerJob(state, urls, t) ==
    [ status           |-> "pending",
      state            |-> state,
      urls             |-> urls,
      web_urls_found   |-> 0,
      pdf_urls_found   |-> 0,
      error_message    |-> NoMsg,
      started_at       |-> t,
      completed_at     |-> NULL,
      duration_seconds |-> NULL ]

\* data argument of updateCrawlerJobStatus: undefined, or an object
NoData == [given |-> FALSE, fields |-> <<>>]
Data(f) == [given |-> TRUE, fields |-> f]

Has(f, k) == k \in DOMAIN f

\* the columns the pg build puts in its UPDATE
StatusUpdatePg(job, status, data, t) ==
    LET d0 == data.fields
        d1 == IF status = "processing" /\ ~Has(d0, "started_at")
              THEN [started_at |-> t] @@ d0 ELSE d0
        d2 == IF status \in Terminal
              THEN (IF job.started_at # NULL
                    THEN [completed_at |-> t, duration_seconds |-> t - job.started_at]
                    ELSE [completed_at |-> t]) @@ d1
              ELSE d1
    IN  IF data.given THEN [status |-> status] @@ d2 ELSE [status |-> status]

\* the updateData object the prisma build passes to update()
StatusUpdatePrisma(job, status, data, t) ==
    LET u0 == [status |-> status] @@ (IF data.given THEN data.fields ELSE <<>>)
        u1 == IF status = "processing" /\ ~(data.given /\ Has(data.fields, "started_at"))
              THEN [started_at |-> t] @@ u0 ELSE u0
        u2 == IF status \in Terminal
              THEN (IF job.started_at # NULL
                    THEN [completed_at |-> t, duration_seconds |-> t - job.started_at]
                    ELSE [completed_at |-> t]) @@ u1
              ELSE u1
    IN  u2

StatusUpdate(build, job, status, data, t) ==
    IF build = "pg" THEN StatusUpdatePg(job, status, data, t)
                    ELSE StatusUpdatePrisma(job, status, data, t)

\* UPDATE crawler_jobs SET <columns> WHERE id = $1
ApplyUpdate(job, upd) ==
    [f \in DOMAIN job |-> IF f \in DOMAIN upd THEN upd[f] ELSE job[f]]

updateCrawlerJobStatus(build, job, status, data, t) ==
    ApplyUpdate(job, StatusUpdate(build, job, status, data, t))

\* variant: the progress write also restarts the job
ProgressRestarts(job, webUrlsFound, pdfUrlsFound) ==
    [job EXCEPT !.web_urls_found = webUrlsFound, !.pdf_urls_found = pdfUrlsFound,
                !.status = "processing"]

updateCrawlerJobProgress(job, webUrlsFound, pdfUrlsFound) ==
    ApplyUpdate(job, [web_urls_found |-> webUrlsFound, pdf_urls_found |-> pdfUrlsFound])

markCrawlerJobAsFailed(build, job, errorMessage, t) ==
    updateCrawlerJobStatus(build, job, "failed", Data([error_message |-> errorMessage]), t)

\* 1 when the UPDATE of this call writes completed_at
WritesCompletedAt(build, job, status, data, t) ==
    IF Has(StatusUpdate(build, job, status, data, t), "completed_at") THEN 1 ELSE 0

----------------------------------------------------------------------------
(* HTTP layer of the ingestion endpoints *)

Endpoints == {"url", "website"}    \* POST /crawl/url, POST /crawl/website

\* req.body.urls: absent, a non-array value, or an array of strings
Bodies ==
    {[kind |-> "missing", arr |-> <<>>], [kind |-> "notArray", arr |-> <<>>]} \cup
    {[kind |-> "array", arr |-> a] :
        a \in {<<>>, <<BadUrl>>, <<"u1">>, <<BadUrl, "u1">>, <<"u1", "u2">>}}

\* new URL(url) succeeds
IsValidUrl(url) == url \in Urls

MsgTypeError == "urls.filter is not a function"
MsgHeadersSent == "Cannot set headers after they are sent to the client"
MsgNoWebUrls == "No web URLs found"
MsgNoWebUrlsBg == "No valid web URLs found to process"
MsgDb == "Failed to update crawler job"
MsgCreate == "Failed to create crawler job."
MsgCrawl == "crawl failed"
MsgInvalidHtml == "Invalid input: HTML content must be a non-empty string"
MsgStore == "vector store error"
MsgUpload == "upload failed"

IdleHandler ==
    [ pc        |-> "idle",
      endpoint  |-> "url",
      state     |-> "NY",
      validUrls |-> <<>>,
      sent      |-> <<>>,     \* the response that went out (at most one can)
      attempts  |-> 0,        \* calls of res.json / res.status().json
      web       |-> {},       \* crawlResult.webUrls
      pdf       |-> 0,        \* crawlResult.pdfUrls.length
      err       |-> NoMsg,    \* message of the error being handled
      threw     |-> FALSE,    \* a step after createCrawlerJob has thrown
      invalid   |-> FALSE,    \* the request failed one of the two validation checks
      existing  |-> {},       \* existingUrls of handlePreviouslyCrawledUrls
      pages     |-> {},       \* crawlResults still to be processed by the loop
      crawled   |-> {},       \* crawlResults as delivered
      run       |-> "none",   \* processUrlsToEmbeddings: none, running, completed, aborted
      after     |-> {},       \* the runs that had ended when this one began
      stored    |-> <<>> ]    \* per URL: rows in the store when this run completed

\* res.status(code).json(..) on a response not yet sent
Sent(hr, code) == [hr EXCEPT !.sent = <<code>>, !.attempts = @ + 1]
\* res.json on a response already sent: setHeader throws ERR_HTTP_HEADERS_SENT
Refused(hr) == [hr EXCEPT !.attempts = @ + 1]
CanSend(hr) == hr.sent = <<>>

\* the outer catch of both routes: res.status(500).json(..); when that throws
\* too the async handler's promise rejects
OuterCatch(hr, msg) ==
    IF CanSend(hr)
    THEN [Sent(hr, 500) EXCEPT !.pc = "done", !.err = msg]
    ELSE [Refused(hr) EXCEPT !.pc = "rejected", !.err = msg]

\* variant: the catch block also tries to answer the request
InnerCatchResponds(hr, msg) ==
    [Refused(hr) EXCEPT !.pc = "catchMarkFailed", !.err = msg, !.threw = TRUE]

\* a throw inside the inner try of /crawl/url or inside the background task
InnerCatch(hr, msg) == [hr EXCEPT !.pc = "catchMarkFailed", !.err = msg, !.threw = TRUE]

\* lines 146-174 and 294-321: both validation checks answer 400 and fall through
Validate(r) ==
    /\ h[r].pc = "idle"
    /\ \E ep \in Endpoints, st \in States, body \in Bodies :
        LET validUrls == SelectSeq(body.arr, IsValidUrl)
            invalid1 == body.kind # "array" \/ Len(body.arr) = 0
            base == [h[r] EXCEPT !.endpoint = ep, !.state = st,
                                 !.invalid = invalid1 \/ Len(validUrls) = 0]
            s1 == IF invalid1 THEN Sent(base, 400) ELSE base
        IN  h' = [h EXCEPT ![r] =
                IF body.kind # "array"
                THEN OuterCatch(s1, MsgTypeError)
                ELSE IF Len(validUrls) = 0
                THEN IF CanSend(s1)
                     THEN [Sent(s1, 400) EXCEPT !.pc = "create", !.validUrls = validUrls]
                     ELSE OuterCatch(Refused(s1), MsgHeadersSent)
                ELSE [s1 EXCEPT !.pc = "create", !.validUrls = validUrls]]
    /\ UNCHANGED <<now, impl, jobs, writes, documents, cache, q, env, call>>

\* createCrawlerJob resolves; /crawl/website then answers 202 and starts the
\* background task, which runs up to its first await
CreateJob(r) ==
    /\ h[r].pc = "create"
    /\ jobs' = [jobs EXCEPT ![r] = createCrawlerJob(h[r].state, h[r].validUrls, now)]
    /\ h' = [h EXCEPT ![r] =
            IF h[r].endpoint = "url"
            THEN [h[r] EXCEPT !.pc = "markProcessing"]
            ELSE IF CanSend(h[r])
                 THEN [Sent(h[r], 202) EXCEPT !.pc = "markProcessing"]
                 ELSE OuterCatch(Refused(h[r]), MsgHeadersSent)]
    /\ UNCHANGED <<now, impl, writes, documents, cache, q, env, call>>

\* createCrawlerJob rejects: nothing was inserted
CreateJobFails(r) ==
    /\ h[r].pc = "create"
    /\ h' = [h EXCEPT ![r] = OuterCatch(h[r], MsgCreate)]
    /\ UNCHANGED <<now, impl, jobs, writes, documents, cache, q, env, call>>

\* one call of updateCrawlerJobStatus on the job of request r
WriteStatus(r, status, data) ==
    /\ jobs' = [jobs EXCEPT ![r] = updateCrawlerJobStatus(impl, jobs[r], status, data, now)]
    /\ writes' = [writes EXCEPT ![r] = @ + WritesCompletedAt(impl, jobs[r], status, data, now)]

\* line 177 (outside the inner try) and line 341 (inside the task's try)
MarkProcessing(r) ==
    /\ h[r].pc = "markProcessing"
    /\ WriteStatus(r, "processing", NoData)
    /\ h' = [h EXCEPT ![r].pc = "crawl"]
    /\ UNCHANGED <<now, impl, documents, cache, q, env, call>>

MarkProcessingFails(r) ==
    /\ h[r].pc = "markProcessing"
    /\ h' = [h EXCEPT ![r] =
            IF h[r].endpoint = "url"
            THEN OuterCatch([h[r] EXCEPT !.threw = TRUE], MsgDb)
            ELSE InnerCatch(h[r], MsgDb)]
    /\ UNCHANGED <<now, impl, jobs, writes, documents, cache, q, env, call>>

\* crawlAllLinks resolves with the discovered web and PDF URLs
Crawl(r) ==
    /\ h[r].pc = "crawl"
    /\ \E web \in SUBSET Urls, pdf \in 0..MaxPdf :
        /\ (h[r].validUrls = <<>>) => (web = {} /\ pdf = 0)
        /\ h' = [h EXCEPT ![r] = [h[r] EXCEPT !.pc = "progress", !.web = web, !.pdf = pdf]]
    /\ UNCHANGED <<now, impl, jobs, writes, documents, cache, q, env, call>>

CrawlFails(r) ==
    /\ h[r].pc = "crawl"
    /\ h' = [h EXCEPT ![r] = InnerCatch(h[r], MsgCrawl)]
    /\ UNCHANGED <<now, impl, jobs, writes, documents, cache, q, env, call>>

\* updateCrawlerJobProgress, then the branch on crawlResult.webUrls.length
Progress(r) ==
    /\ h[r].pc = "progress"
    /\ jobs' = [jobs EXCEPT ![r] =
            updateCrawlerJobProgress(jobs[r], Cardinality(h[r].web), h[r].pdf)]
    /\ h' = [h EXCEPT ![r].pc = IF h[r].web = {} THEN "markNoUrls" ELSE "ingest"]
    /\ UNCHANGED <<now, impl, writes, documents, cache, q, env, call>>

ProgressFails(r) ==
    /\ h[r].pc = "progress"
    /\ h' = [h EXCEPT ![r] = InnerCatch(h[r], MsgDb)]
    /\ UNCHANGED <<now, impl, jobs, writes, documents, cache, q, env, call>>

\* lines 202-210: markCrawlerJobAsFailed, the 400, and no return;
\* lines 377-380: markCrawlerJobAsFailed ends the background task
MarkNoUrls(r) ==
    /\ h[r].pc = "markNoUrls"
    /\ WriteStatus(r, "failed",
           Data([error_message |->
                   IF h[r].endpoint = "url" THEN MsgNoWebUrls ELSE MsgNoWebUrlsBg]))
    /\ h' = [h EXCEPT ![r] =
            IF h[r].endpoint = "website"
            THEN [h[r] EXCEPT !.pc = "done"]
            ELSE IF CanSend(h[r])
                 THEN [Sent(h[r], 400) EXCEPT !.pc = "ingest"]
                 ELSE InnerCatch(Refused(h[r]), MsgHeadersSent)]
    /\ UNCHANGED <<now, impl, documents, cache, q, env, call>>

MarkNoUrlsFails(r) ==
    /\ h[r].pc = "markNoUrls"
    /\ h' = [h EXCEPT ![r] = InnerCatch(h[r], MsgDb)]
    /\ UNCHANGED <<now, impl, jobs, writes, documents, cache, q, env, call>>

----------------------------------------------------------------------------
(* Ingestion orchestrator: processUrlsToEmbeddings *)

\* number of chunks semanticChunk forms for a page (deterministic per content)
NumChunks(content) == IF content = "c1" THEN 1 ELSE 2

\* the documents built from the chunks of one page (lines 62-76)
PageDocuments(run, url, state, content) ==
    {[url |-> url, state |-> state, run |-> run, content |-> content, chunk_number |-> i] :
        i \in 1..NumChunks(content)}

\* variants used to test the sensitivity of the properties below
NoExistingUrls(docs, urls) == {}
NoDelete(docs, existingUrls) == docs
InsertNothing(docs, newDocs) == docs

\* SELECT DISTINCT metadata->>'url' FROM documents WHERE metadata->>'url' = ANY($1)
ExistingUrls(docs, urls) == {u \in urls : \E d \in docs : d.url = u}

\* variant: the first passage of each URL survives the delete
DeleteLaterChunks(docs, existingUrls) ==
    {d \in docs : d.url \notin existingUrls \/ d.chunk_number = 1}

\* DELETE FROM documents WHERE metadata->>'url' = ANY($1)
DeleteUrls(docs, existingUrls) == {d \in docs : d.url \notin existingUrls}

\* vectorStore.addDocuments(documents)
insertDocuments(docs, newDocs) == docs \cup newDocs

RunEnded(hr) == hr.run \in {"completed", "aborted"}

\* number of rows stored for each URL of a batch
StoredCount(docs, urls) == [u \in urls |-> Cardinality({d \in docs : d.url = u})]

\* processUrlsToEmbeddings throws: its catch logs and rethrows to the route
IngestThrows(hr, msg) == [InnerCatch(hr, msg) EXCEPT !.run = "aborted"]

\* handlePreviouslyCrawledUrls, first query (the SELECT)
IngCheck(r) ==
    /\ h[r].pc = "ingest"
    /\ LET existingUrls == ExistingUrls(documents, h[r].web)
       IN  h' = [h EXCEPT ![r] = [h[r] EXCEPT
                    !.run = "running",
                    !.after = {s \in Reqs \ {r} : RunEnded(h[s])},
                    !.existing = existingUrls,
                    !.pc = IF existingUrls # {} THEN "ingDelete" ELSE "ingCrawl"]]
    /\ UNCHANGED <<now, impl, jobs, writes, documents, cache, q, env, call>>

\* handlePreviouslyCrawledUrls, second query (the DELETE)
IngDelete(r) ==
    /\ h[r].pc = "ingDelete"
    /\ documents' = DeleteUrls(documents, h[r].existing)
    /\ h' = [h EXCEPT ![r].pc = "ingCrawl"]
    /\ UNCHANGED <<now, impl, jobs, writes, cache, q, env, call>>

\* requiresJavaScript for every URL, then the two crawlers: one result per
\* URL, with empty html for a URL whose request failed
IngCrawl(r) ==
    /\ h[r].pc = "ingCrawl"
    /\ \E html \in [h[r].web -> Contents \cup {EmptyHtml}] :
        LET crawlResults == {[url |-> u, html |-> html[u]] : u \in h[r].web}
        IN  h' = [h EXCEPT ![r] = [h[r] EXCEPT
                    !.pages = crawlResults,
                    !.crawled = crawlResults,
                    !.run = IF crawlResults = {} THEN "completed" ELSE "running",
                    !.pc = IF crawlResults = {} THEN "upload" ELSE "ingPages"]]
    /\ UNCHANGED <<now, impl, jobs, writes, documents, cache, q, env, call>>

\* one iteration of the loop over crawlResults: convertHtmlToMarkdown (throws
\* on empty html), semanticChunk, insertDocuments
IngPage(r) ==
    /\ h[r].pc = "ingPages"
    /\ \E p \in h[r].pages :
        IF p.html = EmptyHtml
        THEN /\ h' = [h EXCEPT ![r] = IngestThrows(h[r], MsgInvalidHtml)]
             /\ UNCHANGED documents
        ELSE LET newDocs == insertDocuments(documents,
                                PageDocuments(r, p.url, h[r].state, p.html))
                 last == h[r].pages = {p}
             IN  /\ documents' = newDocs
                 /\ h' = [h EXCEPT ![r] = [h[r] EXCEPT
                        !.pages = @ \ {p},
                        !.run = IF last THEN "completed" ELSE "running",
                        !.stored = IF last THEN StoredCount(newDocs, h[r].web) ELSE @,
                        !.pc = IF last THEN "upload" ELSE "ingPages"]]
    /\ UNCHANGED <<now, impl, jobs, writes, cache, q, env, call>>

\* a store, crawler or embedding call of processUrlsToEmbeddings rejects
IngestFails(r) ==
    /\ h[r].pc \in {"ingest", "ingDelete", "ingCrawl", "ingPages"}
    /\ h' = [h EXCEPT ![r] = IngestThrows(h[r], MsgStore)]
    /\ UNCHANGED <<now, impl, jobs, writes, documents, cache, q, env, call>>

\* uploadFilesFromUrls(crawlResult.pdfUrls, ..)
Upload(r) ==
    /\ h[r].pc = "upload"
    /\ h' = [h EXCEPT ![r].pc = "markCompleted"]
    /\ UNCHANGED <<now, impl, jobs, writes, documents, cache, q, env, call>>

UploadFails(r) ==
    /\ h[r].pc = "upload"
    /\ h' = [h EXCEPT ![r] = InnerCatch(h[r], MsgUpload)]
    /\ UNCHANGED <<now, impl, jobs, writes, documents, cache, q, env, call>>

\* lines 217-235: the completed write, then res.json; lines 370-376
MarkCompleted(r) ==
    /\ h[r].pc = "markCompleted"
    /\ WriteStatus(r, "completed",
           Data([web_urls_found |-> Cardinality(h[r].web), pdf_urls_found |-> h[r].pdf]))
    /\ h' = [h EXCEPT ![r] =
            IF h[r].endpoint = "website"
            THEN [h[r] EXCEPT !.pc = "done"]
            ELSE IF CanSend(h[r])
                 THEN [Sent(h[r], 200) EXCEPT !.pc = "done"]
                 ELSE InnerCatch(Refused(h[r]), MsgHeadersSent)]
    /\ UNCHANGED <<now, impl, documents, cache, q, env, call>>

MarkCompletedFails(r) ==
    /\ h[r].pc = "markCompleted"
    /\ h' = [h EXCEPT ![r] = InnerCatch(h[r], MsgDb)]
    /\ UNCHANGED <<now, impl, jobs, writes, documents, cache, q, env, call>>

\* lines 236-241: markCrawlerJobAsFailed, then rethrow to the outer catch;
\* lines 381-385: markCrawlerJobAsFailed ends the background task
CatchMarkFailed(r) ==
    /\ h[r].pc = "catchMarkFailed"
    /\ WriteStatus(r, "failed", Data([error_message |-> h[r].err]))
    /\ h' = [h EXCEPT ![r] =
            IF h[r].endpoint = "website"
            THEN [h[r] EXCEPT !.pc = "done"]
            ELSE OuterCatch(h[r], h[r].err)]
    /\ UNCHANGED <<now, impl, documents, cache, q, env, call>>

\* markCrawlerJobAsFailed itself rejects inside the catch block
CatchMarkFailedFails(r) ==
    /\ h[r].pc = "catchMarkFailed"
    /\ h' = [h EXCEPT ![r] =
            IF h[r].endpoint = "website"
            THEN [h[r] EXCEPT !.pc = "rejected", !.err = MsgDb]
            ELSE OuterCatch(h[r], MsgDb)]
    /\ UNCHANGED <<now, impl, jobs, writes, documents, cache, q, env, call>>

\* time passes
Tick ==
    /\ now < MaxNow
    /\ now' = now + 1
    /\ UNCHANGED <<impl, jobs, writes, h, documents, cache, q, env, call>>

----------------------------------------------------------------------------
(* Query engine: answerQuestion and the /ask route *)

MaxClock == 120
TickSeconds == 60

Qs == {"q1", "q2"}

\* req.query.state when the request carries no state parameter
Undefined == "<undefined>"
StateInputs == {"NY", "ny", Undefined}
\* req.body.question; the empty string stands for every falsy or non-string body
QuestionInputs == {"What is the rent limit", "who am I", ""}
\* response.content of the chat model
Answers == {"a1", "a2"}
\* similarity scores in hundredths
Scores == {69, 70}
RelevanceThreshold == 70
TopK == 8

\* pageContent of the chunk rows of a page
PageText(content, chunk_number) ==
    IF content = "c1" THEN "The Rent Limit is five percent"
    ELSE IF chunk_number = 1 THEN "Deposits are capped"
    ELSE "Notice of rent increase"

\* String.prototype functions used by the query engine
CharAt(s, i) == SubSeq(s, i, i)
UpperCase == "ABCDEFGHIJKLMNOPQRSTUVWXYZ"
LowerCase == "abcdefghijklmnopqrstuvwxyz"
ToLower == [c \in {CharAt(UpperCase, i) : i \in 1..26} |->
                CharAt(LowerCase, CHOOSE i \in 1..26 : CharAt(UpperCase, i) = c)]
LowerChar(c) == IF c \in DOMAIN ToLower THEN ToLower[c] ELSE c

RECURSIVE toLowerCase(_)
toLowerCase(s) ==
    IF Len(s) = 0 THEN "" ELSE LowerChar(CharAt(s, 1)) \o toLowerCase(SubSeq(s, 2, Len(s)))

RECURSIVE trim(_)
trim(s) ==
    IF Len(s) = 0 THEN ""
    ELSE IF CharAt(s, 1) = " " THEN trim(SubSeq(s, 2, Len(s)))
    ELSE IF CharAt(s, Len(s)) = " " THEN trim(SubSeq(s, 1, Len(s) - 1))
    ELSE s

\* s.split(' ')
RECURSIVE split(_)
split(s) ==
    IF \E i \in 1..Len(s) : CharAt(s, i) = " "
    THEN LET i == CHOOSE j \in 1..Len(s) :
                    /\ CharAt(s, j) = " "
                    /\ \A k \in 1..(j - 1) : CharAt(s, k) # " "
         IN  <<SubSeq(s, 1, i - 1)>> \o split(SubSeq(s, i + 1, Len(s)))
    ELSE <<s>>

\* words.join(' ')
RECURSIVE join(_)
join(words) ==
    IF Len(words) = 0 THEN ""
    ELSE IF Len(words) = 1 THEN words[1]
    ELSE words[1] \o " " \o join(Tail(words))

\* haystack.includes(needle)
includes(haystack, needle) ==
    \E i \in 1..(Len(haystack) - Len(needle) + 1) :
        SubSeq(haystack, i, i + Len(needle) - 1) = needle

StopWords == {"what", "when", "where", "how", "why", "who", "the", "and", "for", "that", "this"}

\* lines 76-81
KeyTerms(question) ==
    SelectSeq(split(toLowerCase(question)),
              LAMBDA word : Len(word) > 3 /\ word \notin StopWords)

\* variant: the whole list instead of its first n entries
NoSlice(results, n) == results

\* results.slice(0, n)
Slice(results, n) == SubSeq(results, 1, IF Len(results) < n THEN Len(results) ELSE n)

\* variant: a question without key terms passes the overlap test
RelevantWithoutTerms(results, question) ==
    IF Len(results) = 0 THEN FALSE
    ELSE IF results[1].score < RelevanceThreshold THEN FALSE
    ELSE LET topResults == Slice(results, 3)
             combinedContent ==
                 join([i \in 1..Len(topResults) |->
                          toLowerCase(PageText(topResults[i].doc.content,
                                               topResults[i].doc.chunk_number))])
             keyTerms == KeyTerms(question)
             termMatches == SelectSeq(keyTerms, LAMBDA term : includes(combinedContent, term))
         IN  2 * Len(termMatches) >= Len(keyTerms)

\* lines 62-88; a ratio of 0/0 is NaN and NaN >= 0.5 is false
areResultsRelevant(results, question) ==
    IF Len(results) = 0 THEN FALSE
    ELSE IF results[1].score < RelevanceThreshold THEN FALSE
    ELSE LET topResults == Slice(results, 3)
             combinedContent ==
                 join([i \in 1..Len(topResults) |->
                          toLowerCase(PageText(topResults[i].doc.content,
                                               topResults[i].doc.chunk_number))])
             keyTerms == KeyTerms(question)
             termMatches == SelectSeq(keyTerms, LAMBDA term : includes(combinedContent, term))
         IN  /\ Len(keyTerms) > 0
             /\ 2 * Len(termMatches) >= Len(keyTerms)

\* crypto md5 digest, taken as collision free
md5(s) == "md5(" \o s \o ")"

\* lines 90-96
generateCacheKey(question, state) ==
    "question:" \o md5(trim(toLowerCase(question)) \o ":" \o trim(toLowerCase(state)))
                \o ":response"

\* variant: an answer that does not name the jurisdiction
GenericNoDataResponse(question, state) ==
    [content |-> "I apologize, but I don't have enough relevant information", sources |-> <<>>]

\* lines 128-137
noDataResponse(question, state) ==
    [content |-> "I apologize, but I don't have enough relevant information in my database to answer your question about "
                 \o state \o " state laws regarding \"" \o question
                 \o "\". I recommend consulting the official "
                 \o state \o " state government website",
     sources |-> <<>>]

\* JSON.stringify and JSON.parse of a {content, sources} object
JSONstringify(value) == <<"content", value.content, "sources", value.sources>>
JSONparse(text) == [content |-> text[2], sources |-> text[4]]

\* no pure function has been called
NoCall == [fn |-> "none"]

\* process.env: nothing set, or the variables of the Dockerfile
EnvUnset == [name \in {} |-> ""]
EnvDocker == [DEFAULT_CACHE_TTL |-> "3600"]
Envs == {EnvUnset, EnvDocker}

\* process.env.NAME || fallback
EnvOr(e, name, fallback) ==
    IF name \in DOMAIN e /\ e[name] # "" THEN e[name] ELSE fallback

NaN == -2
Digits == "0123456789"
DigitValues == [c \in {CharAt(Digits, i) : i \in 1..10} |->
                    (CHOOSE i \in 1..10 : CharAt(Digits, i) = c) - 1]
DigitValue(c) == DigitValues[c]
IsDigit(c) == c \in DOMAIN DigitValues

RECURSIVE parseDigits(_, _)
parseDigits(s, acc) ==
    IF Len(s) = 0 \/ ~IsDigit(CharAt(s, 1)) THEN acc
    ELSE parseDigits(SubSeq(s, 2, Len(s)), 10 * acc + DigitValue(CharAt(s, 1)))

\* parseInt of an unsigned decimal string
parseInt(s) ==
    IF Len(s) = 0 \/ ~IsDigit(CharAt(s, 1)) THEN NaN ELSE parseDigits(s, 0)

\* variant: the no-data answer cached like any other answer
LongNoDataTtl(e) == parseInt(EnvOr(e, "DEFAULT_CACHE_TTL", "300"))

\* line 145 and line 203
NoDataTtl(e) == parseInt(EnvOr(e, "NO_DATA_CACHE_TTL", "60"))
DefaultTtl(e) == parseInt(EnvOr(e, "DEFAULT_CACHE_TTL", "300"))

\* redis.get: the live value under the key, or null
redisGet(c, key) ==
    IF \E e \in c : e.key = key THEN <<CHOOSE e \in c : e.key = key>> ELSE <<>>

\* redis.set(key, value, "EX", ttl) at time t
redisSet(c, key, value, ttl, t, class) ==
    {e \in c : e.key # key} \cup
        {[key |-> key, value |-> value, written |-> t, expires |-> t + ttl, class |-> class]}

IdleQuery ==
    [ pc          |-> "idle",
      question    |-> "",
      state       |-> "",
      cacheKey    |-> "",
      hit         |-> FALSE,   \* redis.get returned a value
      cached      |-> <<>>,    \* the entry that was read on a hit
      searched    |-> FALSE,   \* the vector search has returned
      results     |-> <<>>,
      sourceUrls  |-> <<>>,    \* urls of the relevant results, each once
      context     |-> <<>>,    \* the context handed to the chat model
      result      |-> <<>>,    \* the answer computed, about to be cached
      returned    |-> <<>>,    \* what answerQuestion resolved with
      body        |-> <<>>,    \* the JSON body of the route's response
      sent        |-> <<>>,    \* status code of the route's response
      error       |-> NoMsg,
      at          |-> 0,       \* time of the cache read, on a hit
      searches    |-> 0,
      llmCalls    |-> 0,
      cacheWrites |-> 0 ]

\* answerQuestion resolves; the route answers 200 (route lines 82-89)
Return(qr, result) ==
    [qr EXCEPT !.pc = "done", !.returned = <<result>>, !.sent = <<200>>,
               !.body = <<[answer |-> result.content, sources |-> result.sources]>>]

\* answerQuestion rejects; the route's catch answers 500 (route lines 90-97)
Throw(qr, msg) == [qr EXCEPT !.pc = "failed", !.error = msg, !.sent = <<500>>]

\* variant: the cached value is noted but the search goes ahead
OnCacheHitContinue(qr, entry) ==
    [qr EXCEPT !.hit = TRUE, !.cached = <<entry>>, !.pc = "search"]

\* lines 106-111: the cached string is parsed and returned
OnCacheHit(qr, entry) ==
    Return([qr EXCEPT !.hit = TRUE, !.cached = <<entry>>], JSONparse(entry.value))

MsgQuestion == "Question must be a non-empty string"
MsgLlm == "language model call failed"
MsgSearch == "vector search failed"

\* route lines 66-82 and answerQuestion up to redis.get; q1 names the request
\* that arrives first
Ask(i) ==
    /\ q[i].pc = "idle"
    /\ i = "q2" => q["q1"].pc # "idle"
    /\ \E question \in QuestionInputs, state \in StateInputs :
        q' = [q EXCEPT ![i] =
                IF question = ""
                THEN [q[i] EXCEPT !.pc = "done", !.sent = <<400>>, !.error = MsgQuestion]
                ELSE IF state = Undefined
                THEN Throw([q[i] EXCEPT !.question = question, !.state = state], MsgTypeError)
                ELSE [q[i] EXCEPT !.pc = "get", !.question = question, !.state = state,
                                  !.cacheKey = generateCacheKey(question, state)]]
    /\ UNCHANGED <<now, impl, jobs, writes, h, documents, cache, env, call>>

\* redis.get resolves
CacheGet(i) ==
    /\ q[i].pc = "get"
    /\ LET cachedResponse == redisGet(cache, q[i].cacheKey)
       IN  q' = [q EXCEPT ![i] =
                    IF cachedResponse # <<>>
                    THEN OnCacheHit([q[i] EXCEPT !.at = now], cachedResponse[1])
                    ELSE [q[i] EXCEPT !.pc = "search"]]
    /\ UNCHANGED <<now, impl, jobs, writes, h, documents, cache, env, call>>

\* variant: a rejected redis.get fails the invocation
CacheGetThrows(i) ==
    /\ q[i].pc = "get"
    /\ q' = [q EXCEPT ![i] = Throw(q[i], "redis.get failed")]
    /\ UNCHANGED <<now, impl, jobs, writes, h, documents, cache, env, call>>

\* redis.get rejects: warned, then as on a miss
CacheGetFails(i) ==
    /\ q[i].pc = "get"
    /\ q' = [q EXCEPT ![i].pc = "search"]
    /\ UNCHANGED <<now, impl, jobs, writes, h, documents, cache, env, call>>

\* the orderings of a set
Perms(S) ==
    {f \in [1..Cardinality(S) -> S] : \A a, b \in 1..Cardinality(S) : a # b => f[a] # f[b]}

\* similaritySearchWithScore(question, k, {state}): the k best-scoring rows
\* whose metadata carries the state, best first
SearchResults(docs, state, k) ==
    LET matching == {d \in docs : d.state = state}
    IN  {Slice([n \in 1..Cardinality(matching) |-> [doc |-> order[n], score |-> score[order[n]]]], k) :
            order \in {o \in Perms(matching) : TRUE}, score \in [matching -> Scores]}

Sorted(results) ==
    \A a, b \in 1..Len(results) : a < b => results[a].score >= results[b].score

\* lines 155-160: the distinct urls of the relevant results, in order
RECURSIVE DistinctUrls(_, _)
DistinctUrls(results, seen) ==
    IF Len(results) = 0 THEN <<>>
    ELSE LET url == results[1].doc.url
         IN  IF url \in seen
             THEN DistinctUrls(Tail(results), seen)
             ELSE <<url>> \o DistinctUrls(Tail(results), seen \cup {url})

\* variant: every result counts as relevant
AllResults(results) == results

RelevantResults(results) == SelectSeq(results, LAMBDA r : r.score >= RelevanceThreshold)

\* lines 164-170: one context block per relevant result, with its score, its
\* passage and its source url (the text clean-up of the passage is left out)
Context(results) ==
    [n \in 1..Len(RelevantResults(results)) |->
        [score  |-> RelevantResults(results)[n].score,
         doc    |-> RelevantResults(results)[n].doc,
         source |-> RelevantResults(results)[n].doc.url]]

\* lines 122-137 and 155-179: the search returns, the relevance filter decides
Search(i) ==
    /\ q[i].pc = "search"
    /\ \E results \in SearchResults(documents, q[i].state, TopK) :
        LET relevant == areResultsRelevant(results, q[i].question)
        IN  /\ Sorted(results)
            /\ q' = [q EXCEPT ![i] = [q[i] EXCEPT
                    !.searches = @ + 1,
                    !.searched = TRUE,
                    !.results = results,
                    !.sourceUrls = IF relevant
                                   THEN DistinctUrls(RelevantResults(results), {})
                                   ELSE <<>>,
                    !.context = IF relevant THEN Context(results) ELSE <<>>,
                    !.result = IF relevant
                               THEN <<>>
                               ELSE <<noDataResponse(q[i].question, q[i].state)>>,
                    !.pc = IF relevant THEN "llm" ELSE "setNoData"]]
    /\ UNCHANGED <<now, impl, jobs, writes, h, documents, cache, env, call>>

SearchFails(i) ==
    /\ q[i].pc = "search"
    /\ q' = [q EXCEPT ![i] = Throw([q[i] EXCEPT !.searches = @ + 1], MsgSearch)]
    /\ UNCHANGED <<now, impl, jobs, writes, h, documents, cache, env, call>>

\* one redis.set of the computed answer, then the return
CacheSet(i, ttl, class) ==
    /\ ttl # NaN /\ ttl > 0
    /\ cache' = redisSet(cache, q[i].cacheKey, JSONstringify(q[i].result[1]), ttl, now, class)
    /\ q' = [q EXCEPT ![i] = Return([q[i] EXCEPT !.cacheWrites = @ + 1], q[i].result[1])]

\* lines 139-151
SetNoData(i) ==
    /\ q[i].pc = "setNoData"
    /\ CacheSet(i, NoDataTtl(env), "nodata")
    /\ UNCHANGED <<now, impl, jobs, writes, h, documents, env, call>>

\* redis.set rejects: warned, the answer is returned all the same
SetNoDataFails(i) ==
    /\ q[i].pc = "setNoData"
    /\ q' = [q EXCEPT ![i] = Return(q[i], q[i].result[1])]
    /\ UNCHANGED <<now, impl, jobs, writes, h, documents, cache, env, call>>

\* lines 184-195: the chat model answers
Llm(i) ==
    /\ q[i].pc = "llm"
    /\ \E content \in Answers :
        q' = [q EXCEPT ![i] = [q[i] EXCEPT
                !.llmCalls = @ + 1,
                !.result = <<[content |-> content,
                              sources |-> q[i].sourceUrls]>>,
                !.pc = "setResult"]]
    /\ UNCHANGED <<now, impl, jobs, writes, h, documents, cache, env, call>>

\* variant: a failed model call is repeated once before the error is thrown
LlmFailsWithRetry(i) ==
    /\ q[i].pc = "llm"
    /\ q' = [q EXCEPT ![i] =
            IF q[i].llmCalls = 0
            THEN [q[i] EXCEPT !.llmCalls = @ + 1]
            ELSE Throw([q[i] EXCEPT !.llmCalls = @ + 1], MsgLlm)]
    /\ UNCHANGED <<now, impl, jobs, writes, h, documents, cache, env, call>>

\* chain.invoke rejects (lines 184-188): nothing catches it in answerQuestion

LlmFails(i) ==
    /\ q[i].pc = "llm"
    /\ q' = [q EXCEPT ![i] = Throw([q[i] EXCEPT !.llmCalls = @ + 1], MsgLlm)]
    /\ UNCHANGED <<now, impl, jobs, writes, h, documents, cache, env, call>>

\* lines 197-213
SetResult(i) ==
    /\ q[i].pc = "setResult"
    /\ CacheSet(i, DefaultTtl(env), "data")
    /\ UNCHANGED <<now, impl, jobs, writes, h, documents, env, call>>

SetResultFails(i) ==
    /\ q[i].pc = "setResult"
    /\ q' = [q EXCEPT ![i] = Return(q[i], q[i].result[1])]
    /\ UNCHANGED <<now, impl, jobs, writes, h, documents, cache, env, call>>

\* time passes; redis drops the entries whose time to live has run out
QTick ==
    /\ now < MaxClock
    /\ now' = now + TickSeconds
    /\ cache' = {e \in cache : e.expires > now'}
    /\ UNCHANGED <<impl, jobs, writes, h, documents, q, env, call>>

----------------------------------------------------------------------------
(* Specification of the ingestion endpoints: one request is followed through
   every path of its handler; the other request came earlier and has finished.
   A handler writes no row but its own job's, so the requests meet only in
   the documents table. *)

Live == {"r1"}
Earlier == "r2"

\* the handler of an earlier /crawl/website request that found u1 and
\* ingested it, and the job row it left
EarlierHandler(st, c) ==
    [IdleHandler EXCEPT
        !.pc = "done", !.endpoint = "website", !.state = st, !.validUrls = <<"u1">>,
        !.sent = <<202>>, !.attempts = 1, !.web = {"u1"},
        !.crawled = {[url |-> "u1", html |-> c]},
        !.run = "completed", !.stored = [u \in {"u1"} |-> NumChunks(c)]]

EarlierJob(build, st) ==
    updateCrawlerJobStatus(build,
        updateCrawlerJobProgress(
            updateCrawlerJobStatus(build, createCrawlerJob(st, <<"u1">>, 0),
                                   "processing", NoData, 0),
            1, 0),
        "completed", Data([web_urls_found |-> 1, pdf_urls_found |-> 0]), 0)

Init ==
    /\ now = 0
    /\ impl \in {"pg", "prisma"}
    /\ writes = [r \in Reqs |-> IF r = Earlier THEN 1 ELSE 0]
    /\ \E st \in States, c \in Contents :
        /\ jobs = [r \in Reqs |-> IF r = Earlier THEN EarlierJob(impl, st) ELSE NoJob]
        /\ h = [r \in Reqs |-> IF r = Earlier THEN EarlierHandler(st, c) ELSE IdleHandler]
        /\ documents = PageDocuments(Earlier, "u1", st, c)
    /\ cache = {}
    /\ q = [i \in Qs |-> IdleQuery]
    /\ env = EnvUnset
    /\ call = NoCall

Step(r) ==
    \/ Validate(r)
    \/ CreateJob(r)
    \/ CreateJobFails(r)
    \/ MarkProcessing(r)
    \/ MarkProcessingFails(r)
    \/ Crawl(r)
    \/ CrawlFails(r)
    \/ Progress(r)
    \/ ProgressFails(r)
    \/ MarkNoUrls(r)
    \/ MarkNoUrlsFails(r)
    \/ IngCheck(r)
    \/ IngDelete(r)
    \/ IngCrawl(r)
    \/ IngPage(r)
    \/ IngestFails(r)
    \/ Upload(r)
    \/ UploadFails(r)
    \/ MarkCompleted(r)
    \/ MarkCompletedFails(r)
    \/ CatchMarkFailed(r)
    \/ CatchMarkFailedFails(r)

Next == Tick \/ \E r \in Live : Step(r)

Spec == Init /\ [][Next]_vars

----------------------------------------------------------------------------
(* Specification of concurrent ingestion: two background tasks have crawled
   and are about to call processUrlsToEmbeddings; their check, delete, crawl
   and insert steps interleave freely. *)

\* the job row of a task that has reported its crawl
ProcessingJob(build, st, web) ==
    updateCrawlerJobProgress(
        updateCrawlerJobStatus(build, createCrawlerJob(st, <<"u1">>, 0),
                               "processing", NoData, 0),
        Cardinality(web), 0)

IngestingHandler(st, web) ==
    [IdleHandler EXCEPT
        !.pc = "ingest", !.endpoint = "website", !.state = st, !.validUrls = <<"u1">>,
        !.sent = <<202>>, !.attempts = 1, !.web = web]

\* passages an earlier deployment left for u1
OldDocuments == {{}} \cup {PageDocuments("r0", "u1", st, c) : st \in States, c \in Contents}

InitIngest ==
    /\ now = 0
    /\ impl = "pg"
    /\ writes = [r \in Reqs |-> 0]
    /\ \E st \in [Reqs -> States], web \in [Reqs -> (SUBSET Urls) \ {{}}] :
        /\ jobs = [r \in Reqs |-> ProcessingJob(impl, st[r], web[r])]
        /\ h = [r \in Reqs |-> IngestingHandler(st[r], web[r])]
    /\ documents \in OldDocuments
    /\ cache = {}
    /\ q = [i \in Qs |-> IdleQuery]
    /\ env = EnvUnset
    /\ call = NoCall

NextIngest ==
    \E r \in Reqs :
        \/ IngCheck(r)
        \/ IngDelete(r)
        \/ IngCrawl(r)
        \/ IngPage(r)
        \/ IngestFails(r)

SpecIngest == InitIngest /\ [][NextIngest]_vars

----------------------------------------------------------------------------
(* Specification of the query endpoint: two /ask requests, possibly
   concurrent, over a store left by earlier ingestion runs. *)

QueryStores ==
    { {},
      PageDocuments("r1", "u1", "NY", "c2"),
      PageDocuments("r1", "u1", "NY", "c1") \cup PageDocuments("r2", "u2", "NY", "c1") }

InitQuery ==
    /\ now = 0
    /\ impl = "pg"
    /\ writes = [r \in Reqs |-> 0]
    /\ jobs = [r \in Reqs |-> NoJob]
    /\ h = [r \in Reqs |-> IdleHandler]
    /\ documents \in QueryStores
    /\ cache = {}
    /\ q = [i \in Qs |-> IdleQuery]
    /\ env \in Envs
    /\ call = NoCall

NextQuery ==
    \/ QTick
    \/ \E i \in Qs :
        \/ Ask(i)
        \/ CacheGet(i)
        \/ CacheGetFails(i)
        \/ Search(i)
        \/ SearchFails(i)
        \/ SetNoData(i)
        \/ SetNoDataFails(i)
        \/ Llm(i)
        \/ LlmFails(i)
        \/ SetResult(i)
        \/ SetResultFails(i)

SpecQuery == InitQuery /\ [][NextQuery]_vars

----------------------------------------------------------------------------
(* Specification of the relevance filter: areResultsRelevant applied to
   search results of up to MaxResults passages, best first. *)

MaxResults == 4

\* passages of three pages ingested from two urls
RelevanceDocs ==
    PageDocuments("r1", "u1", "NY", "c1") \cup PageDocuments("r1", "u1", "NY", "c2")
        \cup PageDocuments("r2", "u2", "NY", "c1")

RelevanceScores == {69, 70, 95}

RelevanceQuestions ==
    {"What is the rent limit", "who am I", "Is a deposit capped", "rent increase notice"}

\* result lists of distinct passages, scores not increasing
ResultLists ==
    UNION {{res \in [1..n -> [doc : RelevanceDocs, score : RelevanceScores]] :
                \A a, b \in 1..n : a < b =>
                    /\ res[a].doc # res[b].doc
                    /\ res[a].score >= res[b].score}
           : n \in 0..MaxResults}

InitRelevance ==
    /\ now = 0
    /\ impl = "pg"
    /\ writes = [r \in Reqs |-> 0]
    /\ jobs = [r \in Reqs |-> NoJob]
    /\ h = [r \in Reqs |-> IdleHandler]
    /\ documents = RelevanceDocs
    /\ cache = {}
    /\ q = [i \in Qs |-> IdleQuery]
    /\ env = EnvUnset
    /\ call = NoCall

CallAreResultsRelevant ==
    /\ call = NoCall
    /\ \E results \in ResultLists, question \in RelevanceQuestions :
        call' = [fn |-> "areResultsRelevant", results |-> results, question |-> question,
                 out |-> areResultsRelevant(results, question)]
    /\ UNCHANGED <<now, impl, jobs, writes, h, documents, cache, q, env>>

NextRelevance == CallAreResultsRelevant

SpecRelevance == InitRelevance /\ [][NextRelevance]_vars

----------------------------------------------------------------------------
(* Semantic chunker: formChunks, applied to up to MaxUnits units *)

MaxUnits == 4

\* units as splitIntoSentences delivers them: trimmed and not empty
UnitTexts == {"aa", "bbbbb"}
\* window embeddings
Vectors == {<<1, 0>>, <<1, 1>>, <<0, 0>>}
Thresholds == {50, 75}
MaxTokenValues == {4, 7}

\* embeddings[0] of an empty array
NoEmbedding == <<>>

RECURSIVE Dot(_, _)
Dot(vecA, vecB) ==
    IF Len(vecA) = 0 THEN 0 ELSE Head(vecA) * Head(vecB) + Dot(Tail(vecA), Tail(vecB))

\* lines 30-35, in hundredths rounded down: 0 when a magnitude is 0, else
\* dot / (|a| * |b|)
cosineSimilarity(vecA, vecB) ==
    LET dotProduct == Dot(vecA, vecB)
        squares == Dot(vecA, vecA) * Dot(vecB, vecB)
    IN  IF squares = 0 THEN 0
        ELSE IF dotProduct >= 0
        THEN CHOOSE k \in 0..100 :
                /\ k * k * squares <= 10000 * dotProduct * dotProduct
                /\ (k + 1) * (k + 1) * squares > 10000 * dotProduct * dotProduct
        ELSE -(CHOOSE k \in 0..100 :
                /\ k * k * squares >= 10000 * dotProduct * dotProduct
                /\ k = 0 \/ (k - 1) * (k - 1) * squares < 10000 * dotProduct * dotProduct)

\* Array.prototype.join(" "): an undefined entry is joined as the empty string
JoinUnits(units) ==
    join([n \in 1..Len(units) |-> IF units[n] = Undefined THEN "" ELSE units[n]])

\* lines 194-210 and 220-236: the chunk closed from the units gathered so far;
\* units lists the positions of the gathered units
MakeChunk(st, documentName) ==
    [document_name    |-> documentName,
     number_of_chunks |-> 0,
     chunk_number     |-> Len(st.chunks) + 1,
     text             |-> JoinUnits(st.currentChunk),
     token_length     |-> Len(JoinUnits(st.currentChunk)),
     embedding        |-> st.chunkEmbeddings[1],
     units            |-> st.positions]

\* variant: a chunk is closed on low similarity only
LoopStepNoBudget(st, i, sentences, embeddings, similarityThreshold, maxTokens, documentName) ==
    LET closed ==
            IF cosineSimilarity(embeddings[i - 1], embeddings[i]) < similarityThreshold
            THEN [chunks |-> Append(st.chunks, MakeChunk(st, documentName)),
                  currentChunk |-> <<>>, positions |-> <<>>, chunkEmbeddings |-> <<>>]
            ELSE st
    IN  [closed EXCEPT !.currentChunk = Append(@, sentences[i]),
                       !.positions = Append(@, i),
                       !.chunkEmbeddings = Append(@, embeddings[i])]

\* lines 189-216: one iteration of the loop, for the unit at position i
LoopStep(st, i, sentences, embeddings, similarityThreshold, maxTokens, documentName) ==
    LET similarity == cosineSimilarity(embeddings[i - 1], embeddings[i])
        currentText == JoinUnits(st.currentChunk)
        closed ==
            IF similarity < similarityThreshold
               \/ Len(currentText) + Len(sentences[i]) > maxTokens
            THEN [chunks |-> Append(st.chunks, MakeChunk(st, documentName)),
                  currentChunk |-> <<>>, positions |-> <<>>, chunkEmbeddings |-> <<>>]
            ELSE st
    IN  [closed EXCEPT !.currentChunk = Append(@, sentences[i]),
                       !.positions = Append(@, i),
                       !.chunkEmbeddings = Append(@, embeddings[i])]

RECURSIVE Loop(_, _, _, _, _, _, _)
Loop(st, i, sentences, embeddings, similarityThreshold, maxTokens, documentName) ==
    IF i > Len(sentences) THEN st
    ELSE Loop(LoopStep(st, i, sentences, embeddings, similarityThreshold, maxTokens,
                       documentName),
              i + 1, sentences, embeddings, similarityThreshold, maxTokens, documentName)

\* variant: the placeholder count is left in place
KeepPlaceholder(chunks) == chunks

\* line 239: chunks.forEach(chunk => chunk.number_of_chunks = chunks.length)
SetChunkCount(chunks) ==
    [n \in 1..Len(chunks) |-> [chunks[n] EXCEPT !.number_of_chunks = Len(chunks)]]

\* lines 175-241
formChunks(sentences, embeddings, similarityThreshold, maxTokens, documentName) ==
    LET start == [chunks |-> <<>>,
                  currentChunk |-> <<IF Len(sentences) > 0 THEN sentences[1] ELSE Undefined>>,
                  positions |-> <<1>>,
                  chunkEmbeddings |->
                      <<IF Len(embeddings) > 0 THEN embeddings[1] ELSE NoEmbedding>>]
        end == Loop(start, 2, sentences, embeddings, similarityThreshold, maxTokens,
                    documentName)
        chunks == IF Len(end.currentChunk) > 0
                  THEN Append(end.chunks, MakeChunk(end, documentName))
                  ELSE end.chunks
    IN  SetChunkCount(chunks)

InitChunk ==
    /\ now = 0
    /\ impl = "pg"
    /\ writes = [r \in Reqs |-> 0]
    /\ jobs = [r \in Reqs |-> NoJob]
    /\ h = [r \in Reqs |-> IdleHandler]
    /\ documents = {}
    /\ cache = {}
    /\ q = [i \in Qs |-> IdleQuery]
    /\ env = EnvUnset
    /\ call = NoCall

\* semanticChunk lines 256-259: the units and their window embeddings go to
\* formChunks
CallFormChunks ==
    /\ call = NoCall
    /\ \E n \in 0..MaxUnits :
        \E sentences \in [1..n -> UnitTexts], embeddings \in [1..n -> Vectors],
           similarityThreshold \in Thresholds, maxTokens \in MaxTokenValues :
            call' = [fn |-> "formChunks", sentences |-> sentences, embeddings |-> embeddings,
                     similarityThreshold |-> similarityThreshold, maxTokens |-> maxTokens,
                     out |-> formChunks(sentences, embeddings, similarityThreshold,
                                        maxTokens, "u1")]
    /\ UNCHANGED <<now, impl, jobs, writes, h, documents, cache, q, env>>

NextChunk == CallFormChunks

SpecChunk == InitChunk /\ [][NextChunk]_vars

----------------------------------------------------------------------------
(* Claims about the crawl-job lifecycle (checked under Spec) *)

Finished(hr) == hr.pc \in {"done", "rejected"}

StatusRank(status) ==
    CASE status = "none" -> 0
      [] status = "pending" -> 1
      [] status = "processing" -> 2
      [] OTHER -> 3

\* C1: a job's status never regresses: it only moves pending -> processing ->
\* completed or failed, and a completed or failed job keeps its status.
C1_StatusNeverRegresses ==
    [][\A r \in Reqs :
          /\ StatusRank(jobs'[r].status) >= StatusRank(jobs[r].status)
          /\ jobs[r].status \in Terminal => jobs'[r].status = jobs[r].status]_vars

\* C2: completed_at and duration_seconds are written exactly once in a job's
\* life, by the update that makes the status terminal.
C2_CompletedAtWrittenOnce ==
    \A r \in Reqs :
        /\ writes[r] <= 1
        /\ jobs[r].status \in Terminal => writes[r] = 1

\* C3: once the handler or background task of a request has finished, its job
\* is not left pending or processing, and when a step after the job's creation
\* threw the job is failed with the error's message stored.
C3_NoJobLeftUnresolved ==
    \A r \in Reqs :
        (Finished(h[r]) /\ jobs[r] # NoJob) =>
            /\ jobs[r].status \in Terminal
            /\ h[r].threw => (jobs[r].status = "failed" /\ jobs[r].error_message # NoMsg)

\* crawlAllLinks has been called for the request
CrawlStarted(hr) ==
    hr.pc \in {"crawl", "progress", "markNoUrls", "ingest", "ingDelete", "ingCrawl",
               "ingPages", "upload", "markCompleted"}

\* C4: a request that fails validation is answered 400 and creates no job row
\* and starts no crawl.
C4_InvalidRequestCreatesNothing ==
    \A r \in Reqs :
        h[r].invalid =>
            /\ h[r].sent = <<400>>
            /\ jobs[r] = NoJob
            /\ ~CrawlStarted(h[r])

----------------------------------------------------------------------------
(* Claims about passage replacement (checked under SpecIngest) *)

RowsOf(docs, u) == {d \in docs : d.url = u}

\* the html the crawl of run r delivered for u
HtmlOf(hr, u) == (CHOOSE p \in hr.crawled : p.url = u).html

\* the passages run r produced for u
RunRows(r, u) == PageDocuments(r, u, h[r].state, HtmlOf(h[r], u))

Completed(r) == h[r].run = "completed"

\* every other run that has u in its batch either has not begun or had ended
\* when r began
Undisturbed(r, u) ==
    \A s \in Reqs \ {r} : u \notin h[s].web \/ h[s].run = "none" \/ s \in h[r].after

\* C5 as stated: once a run has completed without error, and as long as no
\* later run has begun, the store holds for each URL of its batch exactly the
\* passages that run produced.
C5_Original ==
    \A r \in Reqs : \A u \in h[r].web :
        (Completed(r) /\ \A s \in Reqs \ {r} : r \notin h[s].after) =>
            RowsOf(documents, u) = RunRows(r, u)

\* C5: for a run that no other run of the same URL overlaps, every passage
\* stored for a URL of the batch is gone before the run inserts its first
\* passage for that URL, and once the run has completed the store holds for
\* that URL exactly the passages the run produced.
C5_ReplaceWhenUndisturbed ==
    \A r \in Reqs : \A u \in h[r].web :
        Undisturbed(r, u) =>
            /\ h[r].pc = "ingCrawl" => RowsOf(documents, u) = {}
            /\ (h[r].pc = "ingPages" /\ \E p \in h[r].pages : p.url = u) =>
                    RowsOf(documents, u) = {}
            /\ Completed(r) => RowsOf(documents, u) = RunRows(r, u)

\* a run found passages of its URL, deleted them and completed undisturbed
C5_Witness ==
    \E r \in Reqs : \E u \in h[r].web :
        /\ Completed(r)
        /\ Undisturbed(r, u)
        /\ u \in h[r].existing
        /\ RowsOf(documents, u) = RunRows(r, u)

\* C6: when a URL is ingested by two runs one after the other and both crawls
\* deliver the same content, the number of passages stored for the URL when
\* the second run completes equals the number stored when the first completed.
C6_DedupIdempotence ==
    \A r \in Reqs : \A s \in h[r].after : \A u \in h[r].web \cap h[s].web :
        (Completed(r) /\ Completed(s) /\ HtmlOf(h[r], u) = HtmlOf(h[s], u)) =>
            h[r].stored[u] = h[s].stored[u]

\* two sequential runs of the same URL with the same content have completed
C6_Witness ==
    \E r \in Reqs : \E s \in h[r].after : \E u \in h[r].web \cap h[s].web :
        /\ Completed(r) /\ Completed(s)
        /\ HtmlOf(h[r], u) = HtmlOf(h[s], u)
        /\ h[r].stored[u] = NumChunks(HtmlOf(h[r], u))

\* C7: the check, delete and insert steps of two runs of the same URL
\* interleave without isolation. Once both runs have completed the store
\* holds for the URL the passages of one run, of the other, or of both at
\* once (duplicated); passages older than the two runs never survive.
C7_RaceOutcomes ==
    \A r \in Reqs : \A s \in Reqs \ {r} : \A u \in h[r].web \cap h[s].web :
        (Completed(r) /\ Completed(s)) =>
            RowsOf(documents, u) \in
                {RunRows(r, u), RunRows(s, u), RunRows(r, u) \cup RunRows(s, u)}

\* two overlapping runs have completed and the store holds the passages of
\* both for the same URL
C7_Witness ==
    \E r \in Reqs : \E s \in Reqs \ {r} : \E u \in h[r].web \cap h[s].web :
        /\ Completed(r) /\ Completed(s)
        /\ r \notin h[s].after /\ s \notin h[r].after
        /\ RowsOf(documents, u) = RunRows(r, u) \cup RunRows(s, u)

----------------------------------------------------------------------------
(* Claims about the answer cache (checked under SpecQuery) *)

\* C8: an invocation whose cache read returned a value resolves with that
\* value as it was stored (the answer the writing invocation computed), and
\* performs no vector search, no language-model call and no cache write.
C8_CacheHitReturnsVerbatim ==
    \A i \in Qs :
        q[i].hit =>
            /\ q[i].pc = "done"
            /\ q[i].returned = <<JSONparse(q[i].cached[1].value)>>
            /\ \E j \in Qs \ {i} : q[j].cacheWrites = 1 /\ q[j].returned = q[i].returned
            /\ q[i].searches = 0
            /\ q[i].llmCalls = 0
            /\ q[i].cacheWrites = 0

\* an invocation was answered from the cache with a data-found answer
C8_Witness ==
    \E i \in Qs :
        /\ q[i].hit
        /\ q[i].pc = "done"
        /\ q[i].returned[1].sources # <<>>

\* C9: whenever the search results fail the relevance filter (an empty
\* result list included) the invocation makes no language-model call, and
\* the answer it returns names the requested jurisdiction and has an empty
\* sources list.
C9_RejectionGivesNoDataAnswer ==
    \A i \in Qs :
        (q[i].searched /\ ~areResultsRelevant(q[i].results, q[i].question)) =>
            /\ q[i].llmCalls = 0
            /\ q[i].pc \in {"setNoData", "done"}
            /\ q[i].pc = "done" =>
                    /\ Len(q[i].returned) = 1
                    /\ q[i].returned[1].sources = <<>>
                    /\ includes(q[i].returned[1].content, q[i].state)
                    /\ q[i].body[1].sources = <<>>
                    /\ q[i].sent = <<200>>

\* a query for a jurisdiction without any passage was answered
C9_Witness ==
    \E i \in Qs :
        /\ q[i].searched
        /\ q[i].results = <<>>
        /\ q[i].pc = "done"
        /\ q[i].returned[1].sources = <<>>

\* C10: a cache entry holding a no-data answer lives NO_DATA_CACHE_TTL
\* seconds (60 when unset), one holding a data-found answer
\* DEFAULT_CACHE_TTL seconds (300 when unset, 3600 in the image); a no-data
\* answer served from the cache was written less than 60 seconds before.
C10_TtlClass ==
    /\ \A e \in cache :
            e.expires - e.written =
                IF e.class = "nodata" THEN 60
                ELSE IF env = EnvUnset THEN 300 ELSE 3600
    /\ \A i \in Qs :
            (q[i].hit /\ q[i].cached[1].class = "nodata") =>
                q[i].at - q[i].cached[1].written < 60

\* a no-data entry and a data-found entry are live at the same time
C10_Witness ==
    \E e1, e2 \in cache : e1.class = "nodata" /\ e2.class = "data"

----------------------------------------------------------------------------
(* Claims about the answers of the query engine (checked under SpecQuery) *)

\* the urls of the retrieved passages that score at least 0.7 themselves
UrlsAbove(results) ==
    {results[n].doc.url : n \in {m \in 1..Len(results) : results[m].score >= 70}}

\* the retrieved passages that score at least 0.7 themselves
DocsAbove(results) ==
    {results[n].doc : n \in {m \in 1..Len(results) : results[m].score >= 70}}

NoDuplicates(seq) == \A a, b \in 1..Len(seq) : a # b => seq[a] # seq[b]

\* the invocation has accepted its search results
DataFound(i) ==
    \/ q[i].pc = "llm"
    \/ q[i].llmCalls = 1 /\ q[i].pc \in {"setResult", "done"}

----------------------------------------------------------------------------
(* Claims about the relevance filter (checked under SpecRelevance) *)

\* lower-cased words of the question longer than 3 characters and not stopwords
QuestionTerms(question) ==
    LET words == split(toLowerCase(question))
    IN  {n \in 1..Len(words) : Len(words[n]) > 3 /\ words[n] \notin StopWords}

\* the lower-cased text of the first three results, joined by blanks
TopText(results) ==
    join([n \in 1..(IF Len(results) < 3 THEN Len(results) ELSE 3) |->
             toLowerCase(PageText(results[n].doc.content, results[n].doc.chunk_number))])

\* positions of the key terms that occur in the text
MatchedTerms(results, question) ==
    {n \in QuestionTerms(question) :
        includes(TopText(results), split(toLowerCase(question))[n])}

\* there is a result and the first one scores at least 0.7
Gate(results) == Len(results) > 0 /\ results[1].score >= 70

\* C12 as stated: false without results or with a first score below 0.7;
\* otherwise true exactly when at least half of the key terms occur in the
\* text of the top three results (a question without key terms included).
C12_Original ==
    call.fn = "areResultsRelevant" =>
        call.out =
            /\ Gate(call.results)
            /\ 2 * Cardinality(MatchedTerms(call.results, call.question))
                    >= Cardinality(QuestionTerms(call.question))

\* C12: areResultsRelevant is false without results or with a first score
\* below 0.7, whatever the term overlap; otherwise it is true exactly when
\* the question has at least one key term and at least half of its key
\* terms occur as substrings of the lower-cased text of the top three results.
C12_RelevanceRule ==
    call.fn = "areResultsRelevant" =>
        call.out =
            /\ Gate(call.results)
            /\ Cardinality(QuestionTerms(call.question)) > 0
            /\ 2 * Cardinality(MatchedTerms(call.results, call.question))
                    >= Cardinality(QuestionTerms(call.question))

\* four results pass the score gate and are rejected although the fourth
\* one holds every key term
C12_Witness ==
    /\ call.fn = "areResultsRelevant"
    /\ Len(call.results) = 4
    /\ Gate(call.results)
    /\ ~call.out
    /\ \A n \in QuestionTerms(call.question) :
            includes(toLowerCase(PageText(call.results[4].doc.content,
                                          call.results[4].doc.chunk_number)),
                     split(toLowerCase(call.question))[n])
    /\ QuestionTerms(call.question) # {}

----------------------------------------------------------------------------
(* Claims about jurisdictions and cache failures (checked under SpecQuery) *)

\* invocation j has written the cache entry that invocation i read
WroteFor(j, i) ==
    /\ j # i
    /\ q[j].cacheWrites = 1
    /\ q[j].cacheKey = q[i].cacheKey

\* C13: every passage an answer is built from carries the requested
\* jurisdiction string, an answer served from the cache was written for the
\* same jurisdiction string, and two requests with different jurisdiction
\* strings never use the same cache key.
C13_JurisdictionIsolation ==
    \A i \in Qs :
        /\ \A n \in 1..Len(q[i].results) : q[i].results[n].doc.state = q[i].state
        /\ q[i].hit => \A j \in Qs : WroteFor(j, i) => q[j].state = q[i].state
        /\ \A j \in Qs :
                (q[i].cacheKey # "" /\ q[j].cacheKey # "" /\ q[i].state # q[j].state) =>
                    q[i].cacheKey # q[j].cacheKey

\* C14: an invocation leaves its cache read either with the cached value or
\* in the state of a cache miss, also when the read fails; it leaves a cache
\* write, also a failed one, by returning the answer it had computed,
\* unchanged; no cache step ends in a failure of answerQuestion.
C14_CacheErrorsNonFatal ==
    [][\A i \in Qs :
          /\ (q[i].pc = "get" /\ q'[i].pc # "get") =>
                \/ /\ q'[i].hit
                   /\ redisGet(cache, q[i].cacheKey) # <<>>
                \/ /\ q'[i] = [q[i] EXCEPT !.pc = "search"]
                   /\ cache' = cache
          /\ (q[i].pc \in {"setNoData", "setResult"} /\ q'[i].pc # q[i].pc) =>
                /\ q'[i].pc = "done"
                /\ q'[i].returned = q[i].result
                /\ q'[i].sent = <<200>>
                /\ q'[i].body = <<[answer  |-> q[i].result[1].content,
                                    sources |-> q[i].result[1].sources]>>]_vars

\* an answer was computed and returned although its cache write failed
C14_Witness ==
    \E i \in Qs :
        /\ q[i].pc = "done"
        /\ q[i].searched
        /\ q[i].cacheWrites = 0
        /\ q[i].returned = q[i].result
        /\ \A e \in cache : e.key # q[i].cacheKey

----------------------------------------------------------------------------
(* Claims about the semantic chunker (checked under SpecChunk) *)

\* the positions of the units of all chunks, in chunk order
RECURSIVE AllPositions(_)
AllPositions(chunks) ==
    IF Len(chunks) = 0 THEN <<>> ELSE Head(chunks).units \o AllPositions(Tail(chunks))

\* C15: the units of the chunks, taken in chunk order, are the units of the
\* input in input order: none left out, none twice, none out of place, and
\* no chunk is made of anything else.
C15_ChunkCoverage ==
    call.fn = "formChunks" =>
        AllPositions(call.out) = [n \in 1..Len(call.sentences) |-> n]

\* C16: every chunk of the output carries the number of chunks of that
\* output in number_of_chunks, the chunks closed inside the loop included,
\* and the chunks are numbered from 1 in order.
C16_ChunkCountConsistent ==
    call.fn = "formChunks" =>
        \A n \in 1..Len(call.out) :
            /\ call.out[n].number_of_chunks = Len(call.out)
            /\ call.out[n].chunk_number = n

\* an output of three chunks or more, each carrying the final count
C16_Witness ==
    /\ call.fn = "formChunks"
    /\ Len(call.out) >= 3
    /\ call.out[1].number_of_chunks = Len(call.out)

\* unit i is the first unit of a chunk of the output
StartsChunk(i) == \E c \in 1..Len(call.out) : call.out[c].units[1] = i

\* the text gathered in the chunk of unit i - 1 up to that unit
TextBefore(i) ==
    LET c == CHOOSE k \in 1..Len(call.out) :
                 \E m \in 1..Len(call.out[k].units) : call.out[k].units[m] = i - 1
        upTo == SelectSeq(call.out[c].units, LAMBDA pos : pos <= i - 1)
    IN  join([m \in 1..Len(upTo) |-> call.sentences[upTo[m]]])

\* C17: from the second unit on, a unit starts a new chunk exactly when the
\* similarity of its window embedding to that of the unit before is below
\* the threshold, or the length of the text gathered in the current chunk
\* plus the length of the unit's own text exceeds maxTokens; otherwise it
\* joins the chunk of the unit before.
C17_ChunkBoundaryRule ==
    call.fn = "formChunks" =>
        \A i \in 2..Len(call.sentences) :
            StartsChunk(i) <=>
                \/ cosineSimilarity(call.embeddings[i - 1], call.embeddings[i])
                        < call.similarityThreshold
                \/ Len(TextBefore(i)) + Len(call.sentences[i]) > call.maxTokens

\* one unit starts a chunk for its length alone, another joins its chunk
C17_Witness ==
    /\ call.fn = "formChunks"
    /\ \E i \in 2..Len(call.sentences) :
            /\ StartsChunk(i)
            /\ cosineSimilarity(call.embeddings[i - 1], call.embeddings[i])
                    >= call.similarityThreshold
    /\ \E i \in 2..Len(call.sentences) : ~StartsChunk(i)

\* C18: the text of every chunk has at most maxTokens characters, and
\* token_length reports that length.
C18_ChunkWithinBudget ==
    call.fn = "formChunks" =>
        \A n \in 1..Len(call.out) :
            /\ call.out[n].token_length = Len(call.out[n].text)
            /\ call.out[n].token_length <= call.maxTokens

----------------------------------------------------------------------------
(* Claims about the crawl job tracker and its callers *)

(* Semantic chunker: splitIntoSentences, applied to up to MaxLines lines *)

MaxLines == 4

\* the marker of a fenced code block, three grave accents in the source; a
\* TLA+ string cannot hold that character and "~" stands for it
Fence == "~~~"

\* the lines of the text, as text.split('\n') delivers them
LineTexts == {"", Fence, "#h", "- i", "a. b", "x"}

Terminators == {".", "!", "?"}

\* line.startsWith(prefix)
startsWith(s, prefix) == Len(s) >= Len(prefix) /\ SubSeq(s, 1, Len(prefix)) = prefix

\* the last position of the run of characters in (or not in) Terminators that
\* begins at position p
RECURSIVE RunEnd(_, _, _)
RunEnd(s, p, inTerminators) ==
    IF p < Len(s) /\ ((CharAt(s, p + 1) \in Terminators) = inTerminators)
    THEN RunEnd(s, p + 1, inTerminators)
    ELSE p

\* line.match(/[^.!?]+[.!?]+/g) from position p on: each match is a maximal
\* run of other characters with the terminators that follow it
RECURSIVE MatchFrom(_, _)
MatchFrom(s, p) ==
    IF p > Len(s) THEN <<>>
    ELSE IF CharAt(s, p) \in Terminators THEN MatchFrom(s, p + 1)
    ELSE LET e == RunEnd(s, p, FALSE)
         IN  IF e = Len(s) THEN <<>>
             ELSE LET f == RunEnd(s, e + 1, TRUE)
                  IN  <<SubSeq(s, p, f)>> \o MatchFrom(s, f + 1)

\* line 94: line.match(..) || [line]
LineSentences(line) ==
    LET matches == MatchFrom(line, 1)
    IN  IF matches = <<>> THEN <<line>> ELSE matches

\* line 84: /^[-*+]\s+/ or /^\d+\.\s+/
IsListItem(line) ==
    \/ Len(line) >= 2 /\ CharAt(line, 1) \in {"-", "*", "+"} /\ CharAt(line, 2) = " "
    \/ /\ Len(line) >= 3
       /\ IsDigit(CharAt(line, 1))
       /\ LET e == CHOOSE k \in 1..Len(line) :
                       /\ \A m \in 1..k : IsDigit(CharAt(line, m))
                       /\ k = Len(line) \/ ~IsDigit(CharAt(line, k + 1))
          IN  e + 2 <= Len(line) /\ CharAt(line, e + 1) = "." /\ CharAt(line, e + 2) = " "

\* currentSection.join('\n')
RECURSIVE joinLines(_)
joinLines(parts) ==
    IF Len(parts) = 0 THEN ""
    ELSE IF Len(parts) = 1 THEN parts[1]
    ELSE parts[1] \o "\n" \o joinLines(Tail(parts))

\* sentences.push(currentSection.join('\n')); currentSection = [] when the
\* section is not empty; from records the input lines a unit was built from
Flush(st) ==
    IF Len(st.currentSection) > 0
    THEN [st EXCEPT !.sentences = Append(@, [text |-> joinLines(st.currentSection),
                                            from |-> st.currentFrom]),
                    !.currentSection = <<>>, !.currentFrom = {}]
    ELSE st

\* lines 48-96: the body of the loop, for the line at position i
SplitStep(st, i, lines) ==
    LET line == trim(lines[i])
    IN  IF line = "" THEN Flush(st)
        ELSE IF startsWith(line, Fence)
        THEN [st EXCEPT !.codeBlock = ~@,
                        !.currentSection = Append(@, line), !.currentFrom = @ \cup {i}]
        ELSE IF st.codeBlock
        THEN [st EXCEPT !.currentSection = Append(@, line), !.currentFrom = @ \cup {i}]
        ELSE IF startsWith(line, "#") \/ IsListItem(line)
        THEN [Flush(st) EXCEPT !.sentences = Append(@, [text |-> line, from |-> {i}])]
        ELSE [st EXCEPT !.currentSection = @ \o LineSentences(line),
                        !.currentFrom = @ \cup {i}]

RECURSIVE SplitLoop(_, _, _)
SplitLoop(st, i, lines) ==
    IF i > Len(lines) THEN st ELSE SplitLoop(SplitStep(st, i, lines), i + 1, lines)

\* lines 41-107; the result lists the units with the lines they came from
splitIntoSentences(lines) ==
    LET start == [sentences |-> <<>>, codeBlock |-> FALSE,
                  currentSection |-> <<>>, currentFrom |-> {}]
        end == Flush(SplitLoop(start, 1, lines))
        kept == SelectSeq(end.sentences, LAMBDA sentence : trim(sentence.text) # "")
    IN  [n \in 1..Len(kept) |-> [text |-> trim(kept[n].text), from |-> kept[n].from]]

InitSplit ==
    /\ now = 0
    /\ impl = "pg"
    /\ writes = [r \in Reqs |-> 0]
    /\ jobs = [r \in Reqs |-> NoJob]
    /\ h = [r \in Reqs |-> IdleHandler]
    /\ documents = {}
    /\ cache = {}
    /\ q = [i \in Qs |-> IdleQuery]
    /\ env = EnvUnset
    /\ call = NoCall

\* semanticChunk line 256
CallSplitIntoSentences ==
    /\ call = NoCall
    /\ \E n \in 1..MaxLines :
        \E lines \in [1..n -> LineTexts] :
            call' = [fn |-> "splitIntoSentences", lines |-> lines,
                     out |-> splitIntoSentences(lines)]
    /\ UNCHANGED <<now, impl, jobs, writes, h, documents, cache, q, env>>

NextSplit == CallSplitIntoSentences

SpecSplit == InitSplit /\ [][NextSplit]_vars

----------------------------------------------------------------------------

(* Fan-out and join: Promise.all over the embedding calls of the chunker
   and over the rendering-mode checks of the ingestion. The calls are issued
   together and settle in any order. *)

MaxFan == 3

\* texts of the windows handed to generateEmbeddings
GroupTexts == {"aa bbbbb", "bbbbb"}
FanUrls == {"u1", "u2", "u3"}
Unsettled == [settled |-> FALSE]

\* the vector the embedding model returns for a text
EmbeddingOf(text) == [settled |-> TRUE, value |-> [embeddingOf |-> text]]
\* the answer of requiresJavaScript for a URL of a site
JsAnswer(url, jsSites) == [settled |-> TRUE, value |-> (url \in jsSites)]

\* variant: a settled value is stored at the first free index
SettleInCompletionOrder(results, index, result) ==
    LET free == CHOOSE k \in 1..Len(results) :
                    /\ ~results[k].settled
                    /\ \A m \in 1..(k - 1) : results[m].settled
    IN  [results EXCEPT ![free] = result]

\* Promise.all: the value of the promise at position index is stored at
\* that index of the result array
Settle(results, index, result) == [results EXCEPT ![index] = result]

\* sequences of distinct URLs
UrlLists ==
    UNION {{s \in [1..n -> FanUrls] : \A a, b \in 1..n : a # b => s[a] # s[b]} :
              n \in 1..MaxFan}

InitFanOut ==
    /\ now = 0
    /\ impl = "pg"
    /\ writes = [r \in Reqs |-> 0]
    /\ jobs = [r \in Reqs |-> NoJob]
    /\ h = [r \in Reqs |-> IdleHandler]
    /\ documents = {}
    /\ cache = {}
    /\ q = [i \in Qs |-> IdleQuery]
    /\ env = EnvUnset
    /\ call = NoCall

FanOut(fn, inputs, jsSites) ==
    [fn |-> fn, inputs |-> inputs, jsSites |-> jsSites,
     pending |-> 1..Len(inputs), results |-> [i \in 1..Len(inputs) |-> Unsettled],
     order |-> <<>>, pc |-> "waiting", out |-> <<>>]

\* chunker line 122: groups.map(group => generateEmbeddings(group.join(" ")))
StartEmbeddings ==
    /\ call = NoCall
    /\ \E n \in 1..MaxFan : \E groups \in [1..n -> GroupTexts] :
           call' = FanOut("generateSentenceEmbeddings", groups, {})
    /\ UNCHANGED <<now, impl, jobs, writes, h, documents, cache, q, env>>

\* ingestion line 22: urls.map((url) => requiresJavaScript(url))
StartJsChecks ==
    /\ call = NoCall
    /\ \E urls \in UrlLists : \E jsSites \in SUBSET FanUrls :
           call' = FanOut("requiresJavaScript", urls, jsSites)
    /\ UNCHANGED <<now, impl, jobs, writes, h, documents, cache, q, env>>

\* one of the pending calls resolves
SettleOne ==
    /\ call.fn \in {"generateSentenceEmbeddings", "requiresJavaScript"}
    /\ call.pc = "waiting"
    /\ \E i \in call.pending :
        LET result == IF call.fn = "generateSentenceEmbeddings"
                      THEN EmbeddingOf(call.inputs[i])
                      ELSE JsAnswer(call.inputs[i], call.jsSites)
        IN  call' = [call EXCEPT !.pending = @ \ {i},
                                 !.results = Settle(@, i, result),
                                 !.order = Append(@, i)]
    /\ UNCHANGED <<now, impl, jobs, writes, h, documents, cache, q, env>>

\* one of the pending calls rejects: Promise.all rejects and the caller throws
RejectOne ==
    /\ call.fn \in {"generateSentenceEmbeddings", "requiresJavaScript"}
    /\ call.pc = "waiting"
    /\ call.pending # {}
    /\ call' = [call EXCEPT !.pc = "rejected"]
    /\ UNCHANGED <<now, impl, jobs, writes, h, documents, cache, q, env>>

\* all calls have resolved; chunker line 123 returns the embeddings, ingestion
\* lines 26-27 group the URLs by jsRequirements[i]
JoinAll ==
    /\ call.fn \in {"generateSentenceEmbeddings", "requiresJavaScript"}
    /\ call.pc = "waiting"
    /\ call.pending = {}
    /\ LET values == [i \in 1..Len(call.results) |-> call.results[i].value]
           idx == [i \in 1..Len(call.inputs) |-> i]
           pick(sel(_)) == LET keep == SelectSeq(idx, sel)
                        IN  [k \in 1..Len(keep) |-> call.inputs[keep[k]]]
       IN  call' = [call EXCEPT
                !.pc = "joined",
                !.out = IF call.fn = "generateSentenceEmbeddings"
                        THEN values
                        ELSE [jsUrls |-> pick(LAMBDA i : values[i]),
                              nonJsUrls |-> pick(LAMBDA i : ~values[i])]]
    /\ UNCHANGED <<now, impl, jobs, writes, h, documents, cache, q, env>>

NextFanOut == StartEmbeddings \/ StartJsChecks \/ SettleOne \/ RejectOne \/ JoinAll

SpecFanOut == InitFanOut /\ [][NextFanOut]_vars

----------------------------------------------------------------------------

(* Specification of the tracker's interface: the exported functions are
   called on one job row in any order, with and without the optional data
   argument, on either build. *)

TrackedJob == "r1"

\* the data argument: undefined, {}, or the objects the callers pass
StatusData ==
    {NoData, Data(<<>>), Data([error_message |-> MsgCrawl]),
     Data([web_urls_found |-> 1, pdf_urls_found |-> 0])}

InitTracker ==
    /\ now = 0
    /\ impl \in {"pg", "prisma"}
    /\ writes = [r \in Reqs |-> 0]
    /\ jobs = [r \in Reqs |-> IF r = TrackedJob THEN NoJob ELSE EarlierJob(impl, "NY")]
    /\ h = [r \in Reqs |-> IdleHandler]
    /\ documents = {}
    /\ cache = {}
    /\ q = [i \in Qs |-> IdleQuery]
    /\ env = EnvUnset
    /\ call = NoCall

CallCreateCrawlerJob ==
    /\ jobs[TrackedJob] = NoJob
    /\ \E st \in States :
        /\ jobs' = [jobs EXCEPT ![TrackedJob] = createCrawlerJob(st, <<"u1">>, now)]
        /\ call' = [fn |-> "createCrawlerJob"]
    /\ UNCHANGED <<now, impl, writes, h, documents, cache, q, env>>

CallUpdateCrawlerJobStatus ==
    /\ jobs[TrackedJob] # NoJob
    /\ \E status \in {"processing", "completed", "failed"}, data \in StatusData :
        /\ jobs' = [jobs EXCEPT ![TrackedJob] =
                        updateCrawlerJobStatus(impl, jobs[TrackedJob], status, data, now)]
        /\ call' = [fn |-> "updateCrawlerJobStatus", job |-> jobs[TrackedJob],
                    status |-> status, data |-> data, t |-> now]
    /\ UNCHANGED <<now, impl, writes, h, documents, cache, q, env>>

CallUpdateCrawlerJobProgress ==
    /\ jobs[TrackedJob] # NoJob
    /\ \E webUrlsFound \in 0..1 :
        /\ jobs' = [jobs EXCEPT ![TrackedJob] =
                        updateCrawlerJobProgress(jobs[TrackedJob], webUrlsFound, 0)]
        /\ call' = [fn |-> "updateCrawlerJobProgress"]
    /\ UNCHANGED <<now, impl, writes, h, documents, cache, q, env>>

CallMarkCrawlerJobAsFailed ==
    /\ jobs[TrackedJob] # NoJob
    /\ jobs' = [jobs EXCEPT ![TrackedJob] =
                    markCrawlerJobAsFailed(impl, jobs[TrackedJob], MsgNoWebUrls, now)]
    /\ call' = [fn |-> "markCrawlerJobAsFailed"]
    /\ UNCHANGED <<now, impl, writes, h, documents, cache, q, env>>

NextTracker ==
    \/ Tick
    \/ CallCreateCrawlerJob
    \/ CallUpdateCrawlerJobStatus
    \/ CallUpdateCrawlerJobProgress
    \/ CallMarkCrawlerJobAsFailed

SpecTracker == InitTracker /\ [][NextTracker]_vars

\* the job of request r carries the failure recorded for a crawl without
\* web URLs
NoUrlsRecorded(r) ==
    /\ jobs[r].status = "failed"
    /\ jobs[r].error_message \in {MsgNoWebUrls, MsgNoWebUrlsBg}

\* C19: once a job is marked failed because its crawl returned no web
\* URLs, processing stops: no ingestion run is started for the request and
\* the job row is never written again, so failed with the no-web-URLs
\* message is final, on both endpoints.
C19_NoUrlsFailureIsFinal ==
    [][\A r \in Live :
          NoUrlsRecorded(r) => (jobs'[r] = jobs[r] /\ h'[r].run = "none")]_vars

\* a step that is one call of updateCrawlerJobProgress on the tracked job
ProgressStep == call'.fn = "updateCrawlerJobProgress" /\ now' = now /\ jobs[TrackedJob] # NoJob

C20_TerminalWriteStoresCompletedAt ==
    /\ (call.fn = "updateCrawlerJobStatus" /\ call.status \in Terminal) =>
           /\ jobs[TrackedJob].completed_at = call.t
           /\ call.job.started_at # NULL =>
                  jobs[TrackedJob].duration_seconds = call.t - call.job.started_at
    /\ \A r \in Reqs :
           jobs[r].status \in Terminal => jobs[r].completed_at # NULL

\* C21: a call of updateCrawlerJobStatus that moves a pending job to
\* processing sets started_at to the time of the call when the row has no
\* started_at, and leaves a started_at the row already has as it is.
C21_StartedAtSetIfAbsent ==
    (/\ call.fn = "updateCrawlerJobStatus"
     /\ call.status = "processing"
     /\ call.job.status = "pending") =>
        jobs[TrackedJob].started_at =
            IF call.job.started_at = NULL THEN call.t ELSE call.job.started_at

----------------------------------------------------------------------------
(* Claims about the HTTP side of the ingestion endpoints *)

\* C29: a request to /crawl/url or /crawl/website is answered exactly once:
\* no handler calls res.json a second time, and a handler that has ended
\* has called it once.
C29_ExactlyOneResponse ==
    \A r \in Live :
        /\ h[r].attempts <= 1
        /\ Finished(h[r]) => (h[r].attempts = 1 /\ Len(h[r].sent) = 1)

\* the 202 acknowledgment of /crawl/website has gone out for request r
Acknowledged(hr) == hr.endpoint = "website" /\ hr.sent = <<202>>

\* C22: on /crawl/website the 202 goes out when the job exists in pending,
\* the job leaves pending only after the 202, and once the 202 is out the
\* background task neither sends nor attempts another response, whether it
\* succeeds or fails.
C22_AckThenBackground ==
    [][\A r \in Live :
          /\ (~Acknowledged(h[r]) /\ Acknowledged(h'[r])) => jobs'[r].status = "pending"
          /\ (h'[r].endpoint = "website" /\ jobs'[r].status \notin {"none", "pending"})
                 => Acknowledged(h'[r])
          /\ Acknowledged(h[r]) =>
                 (h'[r].sent = h[r].sent /\ h'[r].attempts = h[r].attempts)]_vars

\* an acknowledged request whose background task failed after the crawl, and
\* whose only response is the 202
C22_Witness ==
    \E r \in Live :
        /\ Acknowledged(h[r])
        /\ h[r].pc = "done"
        /\ h[r].attempts = 1
        /\ jobs[r].status = "failed"
        /\ jobs[r].error_message = MsgStore

\* the invocation asks a question none of whose words is a key term
AsksWithoutKeyTerms(qr) ==
    qr.pc # "idle" /\ qr.question # "" /\ QuestionTerms(qr.question) = {}

\* C27: for a question without key terms areResultsRelevant is false on
\* whatever the search returns; the invocation never calls the language
\* model, and what it resolves with is the no-data answer for the question,
\* freshly built or read from the cache.
C27_NoKeyTermsNoData ==
    \A i \in Qs :
        AsksWithoutKeyTerms(q[i]) =>
            /\ q[i].searched => ~areResultsRelevant(q[i].results, q[i].question)
            /\ q[i].pc # "llm"
            /\ q[i].llmCalls = 0
            /\ q[i].returned # <<>> =>
                   \E state \in StateInputs \ {Undefined} :
                       q[i].returned[1] = noDataResponse(q[i].question, state)

\* a question without key terms answered with the no-data answer although
\* the first result scores 0.7 or more
C27_Witness ==
    \E i \in Qs :
        /\ AsksWithoutKeyTerms(q[i])
        /\ q[i].searched
        /\ Gate(q[i].results)
        /\ q[i].returned = <<noDataResponse(q[i].question, q[i].state)>>
        /\ q[i].sent = <<200>>

\* the run of request r was aborted after its crawl had delivered its pages
AbortedAfterCrawl(hr) == hr.run = "aborted" /\ hr.crawled # {}

\* C28: when the run is about to crawl, no batch URL has a passage in the
\* store; and after a run that was aborted while processing its pages,
\* every batch URL whose page was not inserted has no passage at all, the
\* passages it had before the run included.
C28_FailedRunLeavesUrlsEmpty ==
    \A r \in Live :
        /\ h[r].pc = "ingCrawl" => \A u \in h[r].web : RowsOf(documents, u) = {}
        /\ AbortedAfterCrawl(h[r]) =>
               \A p \in h[r].pages : RowsOf(documents, p.url) = {}

\* an aborted run: u1 had passages before the run and has none after it
C28_Witness ==
    \E r \in Live :
        /\ AbortedAfterCrawl(h[r])
        /\ h[r].err = MsgInvalidHtml
        /\ "u1" \in h[r].existing
        /\ \E p \in h[r].pages : p.url = "u1"
        /\ RowsOf(documents, "u1") = {}

\* C26: an invocation whose language-model call failed has called the model
\* exactly once, has written nothing to the cache, has resolved with no
\* answer, and its route has answered 500 without an answer body.
C26_ModelFailureIs500 ==
    \A i \in Qs :
        (q[i].pc = "failed" /\ q[i].error = MsgLlm) =>
            /\ q[i].llmCalls = 1
            /\ q[i].cacheWrites = 0
            /\ q[i].returned = <<>>
            /\ q[i].body = <<>>
            /\ q[i].sent = <<500>>

\* a failed model call after a relevant search, with no entry under the key
C26_Witness ==
    \E i \in Qs :
        /\ q[i].pc = "failed"
        /\ q[i].error = MsgLlm
        /\ q[i].searched
        /\ Len(q[i].sourceUrls) > 0
        /\ redisGet(cache, q[i].cacheKey) = <<>>

----------------------------------------------------------------------------
(* Claims about splitIntoSentences *)

\* the positions of the lines that start with a fence, in order
FenceLines(lines) ==
    LET idx == [n \in 1..Len(lines) |-> n]
    IN  SelectSeq(idx, LAMBDA n : startsWith(trim(lines[n]), Fence))

\* C23: every line from an opening fence through the matching closing fence
\* (the fences pair up in order) that is not blank is in one and the same
\* output unit, whatever lies between the fences.
C23_CodeBlockIsOneUnit ==
    call.fn = "splitIntoSentences" =>
        LET fences == FenceLines(call.lines)
        IN  \A k \in 1..Len(fences) :
                (k % 2 = 1 /\ k + 1 <= Len(fences)) =>
                    \E n \in 1..Len(call.out) :
                        \A m \in fences[k]..fences[k + 1] :
                            trim(call.lines[m]) # "" => m \in call.out[n].from

\* the characters of s that are not white space
RECURSIVE NonBlank(_)
NonBlank(s) ==
    IF Len(s) = 0 THEN ""
    ELSE (IF CharAt(s, 1) \in {" ", "\n"} THEN "" ELSE CharAt(s, 1))
             \o NonBlank(SubSeq(s, 2, Len(s)))

\* C30: the characters of the input that are not white space are, in input
\* order, exactly those of the output units taken in order.
C30_NoTextLost ==
    call.fn = "splitIntoSentences" =>
        NonBlank(joinLines([n \in 1..Len(call.out) |-> call.out[n].text]))
            = NonBlank(joinLines(call.lines))

----------------------------------------------------------------------------
(* Claims about the fan-out of concurrent calls *)

\* the entries of a sequence, as a set
Range(seq) == {seq[i] : i \in 1..Len(seq)}

\* C24: whatever the order in which the concurrent calls settle, the joined
\* embeddings hold at index i the embedding of window i, and the joined
\* rendering-mode answers send URL i to the Playwright list exactly when the
\* answer for URL i is true and to the Cheerio list otherwise, each list in
\* input order, so that every URL is in exactly one of the two lists.
C24_JoinByIndex ==
    (call.fn \in {"generateSentenceEmbeddings", "requiresJavaScript"}
        /\ call.pc = "joined") =>
        IF call.fn = "generateSentenceEmbeddings"
        THEN /\ Len(call.out) = Len(call.inputs)
             /\ \A i \in 1..Len(call.inputs) :
                    call.out[i] = [embeddingOf |-> call.inputs[i]]
        ELSE /\ call.out.jsUrls = SelectSeq(call.inputs, LAMBDA u : u \in call.jsSites)
             /\ call.out.nonJsUrls = SelectSeq(call.inputs, LAMBDA u : u \notin call.jsSites)
             /\ Range(call.out.jsUrls) \cap Range(call.out.nonJsUrls) = {}
             /\ Range(call.out.jsUrls) \cup Range(call.out.nonJsUrls) = Range(call.inputs)

\* joined embeddings of different windows whose calls settled last first
C24_Witness ==
    /\ call.fn = "generateSentenceEmbeddings"
    /\ call.pc = "joined"
    /\ Len(call.inputs) = 3
    /\ call.order = <<3, 2, 1>>
    /\ call.inputs[1] # call.inputs[3]

============================================================================
